---- MODULE Spec2Model ----
(***************************************************************************)
(* Model of the GitHub repository assistant: the Streamlit session         *)
(* (github_repo_assistant.py), the conversation engine entry points, the   *)
(* tool handlers and the history persistence primitives (agent.py), and    *)
(* the repository-data functions the handlers call (github_utils.py).      *)
(*                                                                         *)
(* Strings that the code inspects character by character (repository      *)
(* identifiers, file names) are tuples of one-character strings.  The      *)
(* empty tuple stands for None / the empty string (both falsy in Python).  *)
(* Confidence values are counted in tenths: 10 stands for 1.0.             *)
(* Record constructors list their fields in the order in which TLC keeps   *)
(* the fields of a record.                                                 *)
(***************************************************************************)
EXTENDS Integers, Sequences, FiniteSets, TLC

VARIABLES
    files,                \* the history directory: file name -> file content
    pydantic_messages,    \* st.session_state.pydantic_messages (dict repo -> messages)
    selected_repository,  \* st.session_state.selected_repository
    repositories,         \* st.session_state.repositories (full_name list)
    chat_history,         \* st.session_state.chat_history
    conversation_started, \* st.session_state.conversation_started
    queried,              \* repositories a query was processed for in this session
    steps,                \* number of user operations performed so far
    last,                 \* observation of the last operation
    call,                 \* the last invocation of a tool handler or of the
                          \* context composer, and what it did
    engine                \* one run of the agent, request by request

vars == <<files, pydantic_messages, selected_repository, repositories,
          chat_history, conversation_started, queried, steps, last,
          call, engine>>

\* ------------------------------------------------------------------ bounds
MaxHistLen == 6      \* longest message history explored
MaxToolCalls == 2    \* most tool calls the model requests in one turn
MaxSteps == 4      \* most user operations in one behaviour
MaxStoreOps == 4     \* most save/load calls in one behaviour of SpecStore

\* ------------------------------------------------------------- identifiers
None == <<>>

RepoAB == <<"a", "/", "b">>
RepoAB_C == <<"a", "/", "b", "_", "c">>
RepoA_BC == <<"a", "_", "b", "/", "c">>
Repos == {RepoAB, RepoAB_C, RepoA_BC}

\* the orders in which the listing of the owner's repositories may arrive
Listings == {<<RepoAB, RepoAB_C, RepoA_BC>>,
             <<RepoAB_C, RepoA_BC, RepoAB>>}

HISTORY_DIR == <<"chat_history">>

\* str.replace("/", "_")
ReplaceSlash(s) == [i \in 1..Len(s) |-> IF s[i] = "/" THEN "_" ELSE s[i]]

\* os.path.join(HISTORY_DIR, f"{safe_name}_history.json")
get_history_filename(repo_name) ==
    IF repo_name = None
    THEN None
    ELSE HISTORY_DIR \o <<"/">> \o ReplaceSlash(repo_name) \o <<"_history.json">>

Filenames == {get_history_filename(r) : r \in Repos}

\* ---------------------------------------------------------------- messages
\* A value as Python holds it: a type tag and the value's text.
Str(v) == [type |-> "str", val |-> v]
Datetime(v) == [type |-> "datetime", val |-> v]

Tools == {"get_repo_details", "get_file_content"}

\* What a tool handler returns on success.  get_repo_details and list_issues
\* return dictionaries whose created_at/updated_at are datetime objects;
\* get_file_content returns a dictionary of strings and numbers only.
ToolReturnContent(tool) ==
    IF tool \in {"get_repo_details", "list_issues"}
    THEN Datetime("2024-01-01") ELSE Str("text")

Now == Datetime("now")

UserMessage(query) ==
    [tool |-> "", role |-> "user", content |-> Str(query), timestamp |-> Now]
ToolCallMessage(tool) ==
    [tool |-> tool, role |-> "tool-call", content |-> Str("args"), timestamp |-> Now]
ToolResultMessage(tool) ==
    [tool |-> tool, role |-> "tool-result", content |-> ToolReturnContent(tool),
     timestamp |-> Now]
AssistantMessage ==
    [tool |-> "", role |-> "assistant", content |-> Str("answer"), timestamp |-> Now]

\* ------------------------------------------------------------ serialization
\* pydantic_core.to_jsonable_python on one value: a datetime becomes its
\* ISO-8601 string, a string stays a string.
JsonableValue(v) == IF v.type = "datetime" THEN Str(v.val) ELSE v

to_jsonable_python(messages) ==
    [i \in 1..Len(messages) |->
        [messages[i] EXCEPT !.content = JsonableValue(@),
                            !.timestamp = JsonableValue(@)]]

\* TypeAdapter(List[ModelMessage]).validate_python: the timestamp field is
\* declared datetime and is parsed back from its string; the content of a
\* message is declared Any and is kept as the JSON value it was read as.
ParseDatetime(v) == IF v.type = "str" THEN Datetime(v.val) ELSE v

validate_python(serialized) ==
    [i \in 1..Len(serialized) |->
        [serialized[i] EXCEPT !.timestamp = ParseDatetime(@)]]

\* ------------------------------------------------------------------- files
Absent == [kind |-> "absent", data |-> <<>>]
Partial == [kind |-> "partial", data |-> <<>>]    \* truncated, not valid JSON
JsonFile(serialized) == [kind |-> "json", data |-> serialized]

\* What the operating system does to a write.
WriteOutcomes == {"ok", "open_error", "write_error"}

\* Variant: a save that leaves out the last message.
save_messages_to_json_DropsLast(messages, old, io) ==
    [file |-> CASE io = "ok" ->
                     JsonFile(to_jsonable_python(
                         SubSeq(messages, 1, Len(messages) - 1)))
                [] io = "open_error" -> old
                [] OTHER -> Partial,
     raised |-> FALSE,
     logged_error |-> io # "ok"]

\* Variant: a save without the try/except around the write.
save_messages_to_json_Raises(messages, old, io) ==
    [file |-> CASE io = "ok" -> JsonFile(to_jsonable_python(messages))
                [] io = "open_error" -> old
                [] OTHER -> Partial,
     raised |-> io # "ok",
     logged_error |-> io # "ok"]

\* save_messages_to_json: the file content afterwards and how the call ended.
\* open(filename, 'w') truncates the file before json.dump writes to it.
save_messages_to_json(messages, old, io) ==
    [file |-> CASE io = "ok" -> JsonFile(to_jsonable_python(messages))
                [] io = "open_error" -> old
                [] OTHER -> Partial,
     raised |-> FALSE,
     logged_error |-> io # "ok"]

\* Variant: a load without the try/except around reading the file.
load_messages_from_json_Raises(file) ==
    [raised |-> file.kind = "partial",
     value |-> CASE file.kind = "absent" -> <<>>
                 [] file.kind = "json" -> validate_python(file.data)
                 [] OTHER -> <<>>]

\* load_messages_from_json: the returned list and how the call ended.
load_messages_from_json(file) ==
    [raised |-> FALSE,
     value |-> CASE file.kind = "absent" -> <<>>
                 [] file.kind = "json" -> validate_python(file.data)
                 [] OTHER -> <<>>]

\* ------------------------------------------------------- result validation
\* the confidence values the model may emit, in tenths
Confidences == {-1, 0, 10, 11}

\* the answer texts the model may emit
Answers == {"answer", ""}

NoResult == [present |-> FALSE, answer |-> "", confidence |-> 0]

\* Variant: a validator that clamps an out-of-range confidence into range.
RepositoryAnalysisResult_Clamped(answer, confidence) ==
    [present |-> TRUE, answer |-> answer,
     confidence |-> IF confidence < 0 THEN 0
                    ELSE IF confidence > 10 THEN 10 ELSE confidence]

\* RepositoryAnalysisResult: confidence is declared Field(..., ge=0.0, le=1.0);
\* construction with a value outside the interval is a validation error.
RepositoryAnalysisResult(answer, confidence) ==
    IF confidence >= 0 /\ confidence <= 10
    THEN [present |-> TRUE, answer |-> answer, confidence |-> confidence]
    ELSE NoResult

\* ------------------------------------------------------------------ engine
ToolSeqs == UNION {[1..n -> Tools] : n \in 0..MaxToolCalls}

\* What the model and the collaborators do in one run: the tools the model
\* calls, in order; whether the run is cut short by an error ("tool_error":
\* the last tool called raises, "model_error": the first model request
\* raises); the text and the confidence of the final answer.  The session
\* passes the text on without looking at it, so one text stands for all here;
\* the run that is followed step by step draws it from Answers.
ModelBehaviours ==
    {b \in [answer : {"answer"}, confidence : Confidences, tools : ToolSeqs,
            failure : {"", "tool_error", "model_error"}] :
        /\ (b.failure = "tool_error" => b.tools # <<>>)
        /\ (b.failure = "model_error" => b.tools = <<>>)
        /\ (b.failure # "" => b.confidence = 0)}

\* the tool-call / tool-result messages of one run, in order of occurrence
ToolMessages(tools) ==
    [i \in 1..(2 * Len(tools)) |->
        IF i % 2 = 1 THEN ToolCallMessage(tools[(i + 1) \div 2])
                     ELSE ToolResultMessage(tools[i \div 2])]

\* the messages one successful run adds
new_messages(query, tools) ==
    <<UserMessage(query)>> \o ToolMessages(tools) \o <<AssistantMessage>>

\* Variant: only the messages of this run are kept.
all_messages_NewOnly(message_history, query, tools) ==
    new_messages(query, tools)

\* result.all_messages(): the history the run was given, then its own messages
all_messages(message_history, query, tools) ==
    message_history \o new_messages(query, tools)

\* analyze_repository_sync: runs the agent with the history when one is
\* given; every exception is logged and raised again.
analyze_repository_sync(query, message_history, b) ==
    LET data == RepositoryAnalysisResult(b.answer, b.confidence)
        history == IF message_history # <<>> THEN message_history ELSE <<>>
    IN  IF b.failure # ""
        THEN [data |-> NoResult, raised |-> TRUE, all_messages |-> <<>>,
              error |-> b.failure]
        ELSE IF ~data.present
        THEN [data |-> NoResult, raised |-> TRUE, all_messages |-> <<>>,
              error |-> "validation_error"]
        ELSE [data |-> data, raised |-> FALSE,
              all_messages |-> all_messages(history, query, b.tools),
              error |-> ""]

\* -------------------------------------------------------------- observation
\* What the last operation was given and what it did.
NoOp ==
    [query |-> "", messages |-> <<>>, io |-> "", tools |-> <<>>,
     error |-> "", op |-> "none", repo |-> None, filename |-> None,
     prior |-> <<>>, emitted |-> 0, result |-> NoResult, shown |-> "",
     save_raised |-> FALSE, save_logged |-> FALSE, file_before |-> Absent,
     first |-> FALSE, load_raised |-> FALSE, had_entry |-> FALSE,
     remove |-> "", reported |-> FALSE]

\* a parameter that the handler does not have, or a value not produced
NoValue == [type |-> "absent", val |-> <<>>]

\* no handler has been invoked yet
NoCall ==
    [repo_name |-> None, tool |-> "", query |-> NoValue, kind |-> "",
     raised |-> FALSE, error |-> "", opt |-> NoValue, collab |-> <<>>,
     fetched |-> <<>>, shape |-> "", coerced |-> NoValue, items |-> <<>>,
     summary |-> [query |-> NoValue, n |-> 0, opt |-> NoValue, form |-> ""]]

\* no run of the agent has been started yet
EngineIdle ==
    [query |-> "", data |-> NoResult, tools |-> <<>>, all_messages |-> <<>>,
     error |-> "", prior |-> <<>>, pc |-> "idle", entry |-> "",
     given |-> <<>>, pending |-> "", collab_error |-> "",
     history_returned |-> FALSE]

\* ----------------------------------------------------------------- session
Queries == {"q"}

EmptyDict == [r \in {} |-> <<>>]

\* d[k] = v for a Python dict d
DictSet(d, k, v) == [r \in DOMAIN d \cup {k} |-> IF r = k THEN v ELSE d[r]]

\* d.get(k, [])
DictGet(d, k) == IF k \in DOMAIN d THEN d[k] ELSE <<>>

ChatEntry(role, content) == [role |-> role, content |-> content]

\* What an earlier session may have left in a history file: nothing, or the
\* history of one query answered without tool calls.
PersistedAtStart ==
    {Absent} \cup {JsonFile(to_jsonable_python(new_messages(q, <<>>))) : q \in Queries}

Init ==
    /\ files \in [Filenames -> PersistedAtStart]
    /\ pydantic_messages = EmptyDict
    /\ selected_repository = None
    /\ repositories = <<>>
    /\ chat_history = <<>>
    /\ conversation_started = FALSE
    /\ queried = {}
    /\ steps = 0
    /\ last = NoOp
    /\ call = NoCall
    /\ engine = EngineIdle

\* A new browser session: the session state is initialised afresh, the
\* history directory is what earlier sessions left.
NewSession ==
    /\ steps < MaxSteps
    /\ steps' = steps + 1
    /\ pydantic_messages' = EmptyDict
    /\ selected_repository' = None
    /\ repositories' = <<>>
    /\ chat_history' = <<>>
    /\ conversation_started' = FALSE
    /\ queried' = {}
    /\ last' = [NoOp EXCEPT !.op = "new_session"]
    /\ UNCHANGED <<files, call, engine>>

\* The "Load Repositories" button: load_repositories(), then the rest of the
\* script run, in which the select box takes its first option when no
\* repository is selected yet.
LoadRepositories(listing, ok) ==
    /\ steps < MaxSteps
    /\ steps' = steps + 1
    /\ repositories' = IF ok THEN listing ELSE repositories
    /\ selected_repository' =
          IF repositories' = <<>> THEN selected_repository
          ELSE IF selected_repository = None THEN repositories'[1]
          ELSE selected_repository
    /\ last' = [NoOp EXCEPT !.op = "load_repositories", !.reported = ~ok]
    /\ UNCHANGED <<call, engine, files, pydantic_messages, chat_history,
                   conversation_started, queried>>

\* load_pydantic_message_history(repo_name): the dict afterwards
load_pydantic_message_history(repo_name) ==
    IF repo_name = None
    THEN pydantic_messages
    ELSE IF get_history_filename(repo_name) # None
            /\ repo_name \notin DOMAIN pydantic_messages
    THEN DictSet(pydantic_messages, repo_name,
                 load_messages_from_json(files[get_history_filename(repo_name)]).value)
    ELSE pydantic_messages

\* The user picks another entry of the select box.  The on_change callback
\* on_repository_select runs first, while selected_repository still holds the
\* previous selection; the script run that follows stores the new one.
SelectRepository(repo) ==
    /\ steps < MaxSteps
    /\ repositories # <<>>
    /\ \E i \in 1..Len(repositories) : repositories[i] = repo
    /\ repo # selected_repository
    /\ steps' = steps + 1
    /\ chat_history' = <<>>
    /\ conversation_started' = FALSE
    /\ pydantic_messages' = load_pydantic_message_history(selected_repository)
    /\ selected_repository' = repo
    /\ last' = [NoOp EXCEPT
          !.op = "select", !.repo = repo,
          !.filename = get_history_filename(selected_repository),
          !.file_before = files[get_history_filename(selected_repository)],
          !.had_entry = selected_repository \in DOMAIN pydantic_messages,
          !.messages = DictGet(pydantic_messages', selected_repository),
          !.load_raised =
              load_messages_from_json(
                  files[get_history_filename(selected_repository)]).raised]
    /\ UNCHANGED <<call, engine, files, repositories, queried>>

\* Variant: the history is stored whether or not the run raised.
update_message_history_Always(run, repo_name) ==
    DictSet(pydantic_messages, repo_name, run.all_messages)

\* The statement that stores result.all_messages() for the repository; it is
\* inside the try block, after the run, so a run that raised never reaches it.
update_message_history(run, repo_name) ==
    IF run.raised THEN pydantic_messages
    ELSE DictSet(pydantic_messages, repo_name, run.all_messages)

\* process_query(query): the chat input handler.  b is what the model and the
\* collaborators do in this run, io what the operating system does to the
\* write of the history file.
process_query(query, b, io) ==
    LET repo_name == selected_repository
        message_history == DictGet(pydantic_messages, repo_name)
        run == analyze_repository_sync(
                   query, IF message_history # <<>> THEN message_history ELSE None, b)
        history_file == get_history_filename(repo_name)
        saves == ~run.raised /\ history_file # None
        sv == save_messages_to_json(run.all_messages, files[history_file], io)
        failed == run.raised \/ (saves /\ sv.raised)
    IN  /\ steps < MaxSteps
        /\ selected_repository # None
        /\ Len(message_history) + Len(new_messages(query, b.tools)) <= MaxHistLen
        /\ (~saves => io = "ok")
        /\ steps' = steps + 1
        /\ conversation_started' = TRUE
        /\ chat_history' = chat_history \o
              <<ChatEntry("user", "query"),
                ChatEntry("assistant", IF failed THEN "error" ELSE "answer")>>
        /\ pydantic_messages' = update_message_history(run, repo_name)
        /\ files' = IF saves THEN [files EXCEPT ![history_file] = sv.file]
                    ELSE files
        /\ queried' = queried \cup {repo_name}
        /\ last' = [NoOp EXCEPT
              !.op = "query", !.repo = repo_name, !.filename = history_file,
              !.query = query, !.tools = b.tools, !.prior = message_history,
              !.emitted = b.confidence,
              !.result = IF failed THEN NoResult ELSE run.data,
              !.error = IF run.raised THEN run.error
                        ELSE IF saves /\ sv.raised THEN "save_error" ELSE "",
              !.shown = IF failed THEN "error" ELSE "answer",
              !.io = IF saves THEN io ELSE "",
              !.save_raised = saves /\ sv.raised,
              !.save_logged = saves /\ sv.logged_error,
              !.file_before = files[history_file],
              !.first = repo_name \notin queried,
              !.had_entry = repo_name \in DOMAIN pydantic_messages,
              !.messages = run.all_messages,
              !.reported = failed]
        /\ UNCHANGED <<call, engine, selected_repository, repositories>>

\* The "Clear Chat" button, shown while the chat history is not empty.
\* rm is what the operating system does to os.remove.
ClearChat(rm) ==
    LET repo_name == selected_repository
        has_entry == repo_name \in DOMAIN pydantic_messages
        history_file == get_history_filename(repo_name)
        removes == /\ has_entry
                   /\ history_file # None
                   /\ files[history_file].kind # "absent"
    IN  /\ steps < MaxSteps
        /\ chat_history # <<>>
        /\ (~removes => rm = "ok")
        /\ steps' = steps + 1
        /\ chat_history' = <<>>
        /\ conversation_started' = FALSE
        /\ pydantic_messages' =
              IF has_entry THEN DictSet(pydantic_messages, repo_name, <<>>)
              ELSE pydantic_messages
        /\ files' = IF removes /\ rm = "ok"
                    THEN [files EXCEPT ![history_file] = Absent]
                    ELSE files
        /\ last' = [NoOp EXCEPT
              !.op = "clear", !.repo = repo_name, !.filename = history_file,
              !.file_before = files[history_file],
              !.had_entry = has_entry,
              !.remove = IF removes THEN rm ELSE "",
              !.reported = removes /\ rm = "error"]
        /\ UNCHANGED <<call, engine, selected_repository, repositories, queried>>

Next ==
    \/ NewSession
    \/ \E listing \in Listings, ok \in BOOLEAN : LoadRepositories(listing, ok)
    \/ \E repo \in Repos : SelectRepository(repo)
    \/ \E query \in Queries, b \in ModelBehaviours, io \in WriteOutcomes :
          process_query(query, b, io)
    \/ \E rm \in {"ok", "error"} : ClearChat(rm)

Spec == Init /\ [][Next]_vars

\* ------------------------------------------------- the store on its own
\* The persistence primitives called directly, with the message sequences
\* the engine can produce.
Turns == {new_messages(q, t) : q \in Queries, t \in ToolSeqs}

RECURSIVE HistoriesUpTo(_)
HistoriesUpTo(n) ==
    IF n = 0 THEN {<<>>}
    ELSE LET H == HistoriesUpTo(n - 1)
         IN  H \cup {h \o t : h \in H, t \in Turns}

Histories == {h \in HistoriesUpTo(MaxHistLen \div 2) : Len(h) <= MaxHistLen}

StoreSave(messages, filename, io) ==
    LET sv == save_messages_to_json(messages, files[filename], io)
    IN  /\ steps < MaxStoreOps
        /\ steps' = steps + 1
        /\ files' = [files EXCEPT ![filename] = sv.file]
        /\ last' = [NoOp EXCEPT
              !.op = "save", !.filename = filename, !.messages = messages,
              !.io = io, !.save_raised = sv.raised,
              !.save_logged = sv.logged_error,
              !.file_before = files[filename]]
        /\ UNCHANGED <<call, engine, pydantic_messages, selected_repository, repositories,
                       chat_history, conversation_started, queried>>

StoreLoad(filename) ==
    LET ld == load_messages_from_json(files[filename])
    IN  /\ steps < MaxStoreOps
        /\ steps' = steps + 1
        /\ last' = [NoOp EXCEPT
              !.op = "load", !.filename = filename, !.messages = ld.value,
              !.load_raised = ld.raised, !.file_before = files[filename]]
        /\ UNCHANGED <<call, engine, files, pydantic_messages, selected_repository,
                       repositories, chat_history, conversation_started,
                       queried>>

NextStore ==
    \/ \E messages \in Histories, filename \in Filenames, io \in WriteOutcomes :
          StoreSave(messages, filename, io)
    \/ \E filename \in Filenames : StoreLoad(filename)

SpecStore == Init /\ [][NextStore]_vars

\* ==================================================================== claims

\* C1: every result that leaves the engine has a confidence between 0.0 and
\* 1.0 and it is the confidence the model emitted; a final answer with a
\* confidence outside the interval yields a validation error and no result.
C1_ConfidenceInRange ==
    /\ (last.result.present =>
          /\ last.result.confidence >= 0
          /\ last.result.confidence <= 10
          /\ last.result.confidence = last.emitted)
    /\ (/\ last.op = "query"
        /\ last.error \notin {"tool_error", "model_error"}
        /\ (last.emitted < 0 \/ last.emitted > 10)
        => ~last.result.present /\ last.error = "validation_error")

C1_Witness ==
    /\ last.op = "query"
    /\ last.emitted = 11
    /\ last.error = "validation_error"
    /\ ~last.result.present

\* C2 (as claimed): after save_messages_to_json(M, location) with a non-empty
\* M, load_messages_from_json(location) returns M.
C2_RoundTrip ==
    last.op = "save" /\ last.messages # <<>>
    => load_messages_from_json(files[last.filename]).value = last.messages

\* C3: load_messages_from_json never raises; it returns the empty sequence
\* for a location that does not exist and for one that cannot be read.
C3_LoadNeverRaises ==
    last.op = "load" =>
        /\ ~last.load_raised
        /\ (last.file_before.kind \in {"absent", "partial"}
              => last.messages = <<>>)

C3_Witness ==
    /\ last.op = "load"
    /\ last.file_before.kind = "partial"
    /\ last.messages = <<>>

\* the tool-call / tool-result pairs of a run, one pair per tool called
RECURSIVE C4_Pairs(_)
C4_Pairs(tools) ==
    IF tools = <<>> THEN <<>>
    ELSE <<ToolCallMessage(Head(tools)), ToolResultMessage(Head(tools))>>
         \o C4_Pairs(Tail(tools))

\* C4: after a successful query the stored history of the repository is the
\* prior history, then the new user message, then every tool-call/tool-result
\* pair in order, then the final assistant message.
C4_HistoryExtended ==
    last.op = "query" /\ last.error = "" =>
        /\ last.repo \in DOMAIN pydantic_messages
        /\ pydantic_messages[last.repo] =
              last.prior \o <<UserMessage(last.query)>>
              \o C4_Pairs(last.tools) \o <<AssistantMessage>>

C4_Witness ==
    /\ last.op = "query"
    /\ last.error = ""
    /\ last.prior # <<>>
    /\ last.tools # <<>>
    /\ Len(pydantic_messages[last.repo]) = Len(last.prior) + 4

\* C5 (as claimed): at the first query of a session for a repository whose
\* history file holds messages, those messages are the prior history passed
\* to the engine.
C5_PersistedHistoryUsed ==
    /\ last.op = "query"
    /\ last.first
    /\ load_messages_from_json(last.file_before).value # <<>>
    => last.prior = load_messages_from_json(last.file_before).value

\* C6: after a successful query whose save did not fail, the history file of
\* the repository holds the serialized form of the whole in-memory history.
C6_FileHoldsHistory ==
    last.op = "query" /\ last.error = "" /\ last.io = "ok" =>
        /\ files[last.filename].kind = "json"
        /\ Len(files[last.filename].data) = Len(pydantic_messages[last.repo])
        /\ files[last.filename].data =
              to_jsonable_python(pydantic_messages[last.repo])

C6_Witness ==
    /\ last.op = "query"
    /\ last.error = ""
    /\ last.io = "ok"
    /\ last.prior # <<>>
    /\ files[last.filename].kind = "json"

\* C7: a query that fails produces no result, shows the error, and leaves the
\* selected repository, every in-memory history and every history file as
\* they were.
C7_FailedQueryFrame ==
    [][(last'.op = "query" /\ last'.error # "" /\ steps' = steps + 1) =>
          /\ ~last'.result.present
          /\ last'.reported
          /\ last'.shown = "error"
          /\ selected_repository' = selected_repository
          /\ pydantic_messages' = pydantic_messages
          /\ files' = files]_vars

C7_Witness ==
    /\ last.op = "query"
    /\ last.error = "tool_error"
    /\ last.file_before.kind = "json"
    /\ ~last.result.present

\* C8 (as claimed): after Clear the in-memory history of the repository is
\* empty, its history file is gone whenever it existed and could be removed,
\* and a failed removal is reported.
C8_ClearRemoves ==
    last.op = "clear" =>
        /\ DictGet(pydantic_messages, last.repo) = <<>>
        /\ (last.file_before.kind # "absent" /\ last.remove # "error"
              => files[last.filename].kind = "absent")
        /\ (last.remove = "error" => last.reported)

\* C9: when the save fails after a successful query, the in-memory history
\* still holds the updated sequence, the answer is still shown, and no
\* exception left save_messages_to_json.
C9_SaveFailureKeepsUpdate ==
    last.op = "query" /\ last.io \in {"open_error", "write_error"} =>
        /\ ~last.save_raised
        /\ last.result.present
        /\ last.shown = "answer"
        /\ pydantic_messages[last.repo] = last.messages
        /\ Len(pydantic_messages[last.repo]) > Len(last.prior)

C9_Witness ==
    /\ last.op = "query"
    /\ last.io = "write_error"
    /\ last.save_logged
    /\ last.result.present

\* C10 (as claimed): a write that fails leaves the copy written before it
\* intact, so that a load still returns what that copy held.
C10_FailedWriteKeepsCopy ==
    last.op = "save" /\ last.save_logged /\ last.file_before.kind = "json" =>
        /\ files[last.filename] = last.file_before
        /\ load_messages_from_json(files[last.filename]).value =
              load_messages_from_json(last.file_before).value

\* C11 (as claimed): the repositories that have a history in the session
\* have pairwise distinct history file names.
C11_CollisionFree ==
    \A r1 \in DOMAIN pydantic_messages, r2 \in DOMAIN pydantic_messages :
        r1 # r2 => get_history_filename(r1) # get_history_filename(r2)


\* ============================================================ tool handlers
\* ----------------------------------------------------------- Python values
\* the placeholder object that stands where an argument was not supplied
FieldInfoObj == [type |-> "FieldInfo", val |-> <<>>]
PyNone == [type |-> "NoneType", val |-> <<>>]

\* isinstance(v, str)
IsStr(v) == v.type = "str"

\* str.lower(), one character
LowerChar(c) ==
    CASE c = "B" -> "b"
      [] c = "U" -> "u"
      [] c = "G" -> "g"
      [] OTHER -> c

\* str.lower()
Lower(s) == [i \in 1..Len(s) |-> LowerChar(s[i])]

\* sub in s, for two strings
Contains(sub, s) ==
    \E i \in 0..(Len(s) - Len(sub)) : SubSeq(s, i + 1, i + Len(sub)) = sub

\* -------------------------------------------------------------- collaborator
MaxItems == 2    \* longest list the collaborator returns

\* the errors the repository-data collaborator raises
CollaboratorErrors == {"BadCredentials", "NotFound", "ConnectionError"}

\* what one call of the collaborator does
Raises(e) == [raised |-> TRUE, error |-> e, shape |-> "", entries |-> <<>>]
Returns(shape, entries) ==
    [raised |-> FALSE, error |-> "", shape |-> shape, entries |-> entries]

SeqsUpTo(S, n) == UNION {[1..k -> S] : k \in 0..n}

\* one call of the collaborator, as the handler names it
CollabCall(fn, query, opt) == [query |-> query, opt |-> opt, fn |-> fn]

\* the values a handler may receive for a string parameter
QueryTexts == {<<"b", "u", "g">>, <<"B", "U", "G">>, <<"x">>, <<>>}
QueryValues == {Str(q) : q \in QueryTexts} \cup {FieldInfoObj}
StateValues == {Str(<<"o", "p", "e", "n">>), FieldInfoObj, PyNone}
PathValues == {Str(<<"s", "r", "c">>), FieldInfoObj, PyNone}
DirPathValues == {Str(<<"s", "r", "c">>), Str(<<>>), FieldInfoObj}

Summary_AlwaysFound(n, query, opt) ==
    [query |-> query, n |-> n, opt |-> opt, form |-> "Found"]

\* f"No ... '{query}' ..." / f"Found {n} ... '{query}' ..."
Summary(n, query, opt) ==
    [query |-> query, n |-> n, opt |-> opt,
     form |-> IF n = 0 THEN "No" ELSE "Found"]

\* the record of a handler invocation that raised error e
Raised(tool, repo_name, query, opt, coerced, collab, fetched, e) ==
    [NoCall EXCEPT !.tool = tool, !.repo_name = repo_name, !.query = query,
                   !.opt = opt, !.coerced = coerced, !.collab = collab,
                   !.fetched = fetched, !.raised = TRUE, !.error = e]

\* the record of a handler invocation that returned
Returned(tool, repo_name, query, opt, coerced, collab, fetched, kind, items, summary) ==
    [NoCall EXCEPT !.tool = tool, !.repo_name = repo_name, !.query = query,
                   !.opt = opt, !.coerced = coerced, !.collab = collab,
                   !.fetched = fetched, !.kind = kind, !.items = items,
                   !.summary = summary]

NoSummary == NoCall.summary

\* ------------------------------------------------------------------- issues
Issue(title, labels) == [title |-> title, labels |-> labels]

Issues ==
    {Issue(<<"B", "u", "g">>, <<>>),
     Issue(<<"a", "d", "d">>, << <<"d", "e", "b", "u", "g">> >>),
     Issue(<<"a", "d", "d">>, << <<"d", "o", "c">> >>)}

IssueOutcomes ==
    {Raises(e) : e \in CollaboratorErrors}
    \cup {Returns("list", l) : l \in SeqsUpTo(Issues, MaxItems)}

\* search_code: the query goes to the collaborator as received
search_code(repo_name, query, out) ==
    LET collab == <<CollabCall("search_code_in_repository", query, NoValue)>>
    IN  IF out.raised
        THEN Raised("search_code", repo_name, query, NoValue, NoValue, collab,
                    <<>>, out.error)
        ELSE Returned("search_code", repo_name, query, NoValue, NoValue, collab,
                      out.entries, "CodeSearchResult", out.entries,
                      Summary(Len(out.entries), query, NoValue))

list_issues_Wraps(repo_name, state, out) ==
    LET collab == <<CollabCall("list_repository_issues", NoValue, state)>>
    IN  IF out.raised
        THEN Raised("list_issues", repo_name, NoValue, state, state, collab,
                    <<>>, "RuntimeError")
        ELSE Returned("list_issues", repo_name, NoValue, state, state, collab,
                      out.entries, "list", out.entries, NoSummary)

\* list_issues: the state goes to the collaborator as received
list_issues(repo_name, state, out) ==
    LET collab == <<CollabCall("list_repository_issues", NoValue, state)>>
    IN  IF out.raised
        THEN Raised("list_issues", repo_name, NoValue, state, state, collab,
                    <<>>, out.error)
        ELSE Returned("list_issues", repo_name, NoValue, state, state, collab,
                      out.entries, "list", out.entries, NoSummary)

IssueMatches_TitleOnly(issue, query_lower) ==
    Contains(query_lower, Lower(issue.title))

\* the test of the list comprehension of analyze_issues
IssueMatches(issue, query_lower) ==
    \/ Contains(query_lower, Lower(issue.title))
    \/ \E i \in 1..Len(issue.labels) :
          Contains(query_lower, Lower(issue.labels[i]))

\* analyze_issues
analyze_issues(repo_name, query, state, out) ==
    LET state1 == IF state # PyNone /\ ~IsStr(state)
                  THEN Str(<<"a", "l", "l">>) ELSE state
        collab == <<CollabCall("list_repository_issues", NoValue, state1)>>
        Test(issue) == IssueMatches(issue, Lower(query.val))
        matching == SelectSeq(out.entries, Test)
    IN  IF out.raised
        THEN Raised("analyze_issues", repo_name, query, state, state1, collab,
                    <<>>, out.error)
        ELSE IF ~IsStr(query)
        THEN Raised("analyze_issues", repo_name, query, state, state1, collab,
                    out.entries, "AttributeError")
        ELSE Returned("analyze_issues", repo_name, query, state, state1, collab,
                      out.entries, "IssueAnalysisResult", matching,
                      Summary(Len(matching), query, state1))

\* ------------------------------------------------------------------ commits
Commit(message, path) == [message |-> message, path |-> path]

Commits ==
    {Commit(<<"B", "u", "g">>, <<"s", "r", "c">>),
     Commit(<<"d", "e", "b", "u", "g">>, <<"d", "o", "c">>),
     Commit(<<"d", "o", "c">>, <<"s", "r", "c">>)}

\* the commit history of the repository, or the error each fetch ends in
CommitOutcomes ==
    {Raises(e) : e \in CollaboratorErrors}
    \cup {Returns("list", l) : l \in SeqsUpTo(Commits, MaxItems)}

\* github_utils.list_repository_commits: the commits that touch the path, or
\* all commits when the path is None
list_repository_commits(out, path) ==
    LET Touches(c) == c.path = path.val
    IN  IF out.raised \/ path = PyNone THEN out
        ELSE Returns("list", SelectSeq(out.entries, Touches))

\* the coercion of the optional path of list_commits and analyze_commits
CoercePath(path) == IF path # PyNone /\ ~IsStr(path) THEN PyNone ELSE path

\* list_commits
list_commits(repo_name, path, out) ==
    LET path1 == CoercePath(path)
        collab == <<CollabCall("list_repository_commits", NoValue, path1)>>
        commits == list_repository_commits(out, path1)
    IN  IF commits.raised
        THEN Raised("list_commits", repo_name, NoValue, path, path1, collab,
                    <<>>, commits.error)
        ELSE Returned("list_commits", repo_name, NoValue, path, path1, collab,
                      commits.entries, "list", commits.entries, NoSummary)

CommitMatches_CaseSensitive(commit, query_lower) ==
    Contains(query_lower, commit.message)

\* the test of the list comprehension of analyze_commits
CommitMatches(commit, query_lower) ==
    Contains(query_lower, Lower(commit.message))

\* analyze_commits
analyze_commits(repo_name, query, path, out) ==
    LET path1 == CoercePath(path)
        collab == <<CollabCall("list_repository_commits", NoValue, path1)>>
        commits == list_repository_commits(out, path1)
        Test(commit) == CommitMatches(commit, Lower(query.val))
        matching == SelectSeq(commits.entries, Test)
        shown == IF IsStr(path1) /\ path1.val # <<>> THEN path1 ELSE NoValue
    IN  IF commits.raised
        THEN Raised("analyze_commits", repo_name, query, path, path1, collab,
                    <<>>, commits.error)
        ELSE IF ~IsStr(query)
        THEN Raised("analyze_commits", repo_name, query, path, path1, collab,
                    commits.entries, "AttributeError")
        ELSE Returned("analyze_commits", repo_name, query, path, path1, collab,
                      commits.entries, "CommitAnalysisResult", matching,
                      Summary(Len(matching), query, shown))

\* ----------------------------------------------------------------- contents
Entry(name, type) == [type |-> type, name |-> name]

Entries == {Entry(<<"f">>, "file"), Entry(<<"d">>, "dir")}

\* github_utils.get_repository_content: one dictionary for a path that is not
\* a directory, a list of entries for a directory
ContentOutcomes ==
    {Raises(e) : e \in CollaboratorErrors}
    \cup {Returns("dict", <<Entry(<<"f">>, t)>>) : t \in {"file", "symlink"}}
    \cup {Returns("list", l) : l \in SeqsUpTo(Entries, MaxItems)}

\* get_file_content
get_file_content(repo_name, path, out) ==
    LET collab == <<CollabCall("get_repository_content", path, NoValue)>>
    IN  IF out.raised
        THEN Raised("get_file_content", repo_name, path, NoValue, NoValue,
                    collab, <<>>, out.error)
        ELSE IF out.shape # "dict" \/ out.entries[1].type # "file"
        THEN [Raised("get_file_content", repo_name, path, NoValue, NoValue,
                     collab, out.entries, "ValueError")
                EXCEPT !.shape = out.shape]
        ELSE [Returned("get_file_content", repo_name, path, NoValue, NoValue,
                       collab, out.entries, "dict", out.entries, NoSummary)
                EXCEPT !.shape = out.shape]

list_directory_contents_EmptyForFile(repo_name, path, out) ==
    LET collab == <<CollabCall("get_repository_content", NoValue, path)>>
    IN  IF out.raised
        THEN Raised("list_directory_contents", repo_name, NoValue, path, path,
                    collab, <<>>, out.error)
        ELSE [Returned("list_directory_contents", repo_name, NoValue, path,
                       path, collab, out.entries, "list",
                       IF out.shape = "list" THEN out.entries ELSE <<>>,
                       NoSummary)
                EXCEPT !.shape = out.shape]

\* list_directory_contents: the path goes to the collaborator as received
list_directory_contents(repo_name, path, out) ==
    LET collab == <<CollabCall("get_repository_content", NoValue, path)>>
    IN  IF out.raised
        THEN Raised("list_directory_contents", repo_name, NoValue, path, path,
                    collab, <<>>, out.error)
        ELSE IF out.shape # "list"
        THEN [Raised("list_directory_contents", repo_name, NoValue, path, path,
                     collab, out.entries, "ValueError")
                EXCEPT !.shape = out.shape]
        ELSE [Returned("list_directory_contents", repo_name, NoValue, path,
                       path, collab, out.entries, "list", out.entries,
                       NoSummary)
                EXCEPT !.shape = out.shape]

\* ------------------------------------------------------- repository metadata
\* identifiers a session context may hold: well formed ones and ones without
\* exactly one "/"
ContextRepoNames == {RepoAB, RepoAB_C, <<"a", "b">>, <<"a", "/", "b", "/", "c">>}

SlashPositions(s) == {i \in 1..Len(s) : s[i] = "/"}

\* username, repo = repo_name.split("/") succeeds with exactly two parts
SplitOk(s) == Cardinality(SlashPositions(s)) = 1

Username(s) == SubSeq(s, 1, (CHOOSE i \in SlashPositions(s) : TRUE) - 1)

RepoInfo(full_name, description) ==
    [full_name |-> full_name, description |-> description]

RepoInfos ==
    {RepoInfo(RepoAB, Str(<<"d">>)), RepoInfo(RepoAB, PyNone),
     RepoInfo(RepoAB_C, Str(<<"d">>)), RepoInfo(<<"a", "/", "x">>, Str(<<"d">>))}

RepoOutcomes ==
    {Raises(e) : e \in CollaboratorErrors}
    \cup {Returns("list", l) : l \in SeqsUpTo(RepoInfos, MaxItems)}

FirstNamed_Any(repos, repo_name) ==
    IF repos = <<>> THEN <<>> ELSE <<Head(repos)>>

\* next((r for r in repos if r["full_name"] == repo_name), None)
FirstNamed(repos, repo_name) ==
    LET Named(r) == r.full_name = repo_name
        named == SelectSeq(repos, Named)
    IN  IF named = <<>> THEN <<>> ELSE <<Head(named)>>

\* get_repo_details
get_repo_details(repo_name, out) ==
    LET collab == <<CollabCall("list_user_repositories",
                               Str(Username(repo_name)), NoValue)>>
        repo_info == FirstNamed(out.entries, repo_name)
    IN  IF ~SplitOk(repo_name)
        THEN Raised("get_repo_details", repo_name, NoValue, NoValue, NoValue,
                    <<>>, <<>>, "ValueError")
        ELSE IF out.raised
        THEN Raised("get_repo_details", repo_name, NoValue, NoValue, NoValue,
                    collab, <<>>, out.error)
        ELSE IF repo_info = <<>>
        THEN Raised("get_repo_details", repo_name, NoValue, NoValue, NoValue,
                    collab, out.entries, "ValueError")
        ELSE Returned("get_repo_details", repo_name, NoValue, NoValue, NoValue,
                      collab, out.entries, "dict", repo_info, NoSummary)

\* the instruction text: the minimal form names the repository only, the
\* enriched form also carries the repository details
Instruction(form, repo_name, details) ==
    [repo_name |-> repo_name, form |-> form, details |-> details]

repository_context_Propagates(repo_name, out) ==
    LET collab == <<CollabCall("list_user_repositories",
                               Str(Username(repo_name)), NoValue)>>
        repo_info == FirstNamed(out.entries, repo_name)
    IN  IF ~SplitOk(repo_name)
        THEN Raised("repository_context", repo_name, NoValue, NoValue, NoValue,
                    <<>>, <<>>, "ValueError")
        ELSE IF out.raised
        THEN [Raised("repository_context", repo_name, NoValue, NoValue,
                     NoValue, collab, <<>>, out.error)
                EXCEPT !.shape = "raised"]
        ELSE [Returned("repository_context", repo_name, NoValue, NoValue,
                       NoValue, collab, out.entries, "str",
                       <<Instruction(IF repo_info = <<>> THEN "minimal"
                                     ELSE "enriched", repo_name, repo_info)>>,
                       NoSummary)
                EXCEPT !.shape = "list"]

\* repository_context: the split is before the try block; shape records
\* whether the fetch raised or gave a list
repository_context(repo_name, out) ==
    LET collab == <<CollabCall("list_user_repositories",
                               Str(Username(repo_name)), NoValue)>>
        repo_info == FirstNamed(out.entries, repo_name)
    IN  IF ~SplitOk(repo_name)
        THEN Raised("repository_context", repo_name, NoValue, NoValue, NoValue,
                    <<>>, <<>>, "ValueError")
        ELSE IF out.raised
        THEN [Returned("repository_context", repo_name, NoValue, NoValue,
                       NoValue, collab, <<>>, "str",
                       <<Instruction("minimal", repo_name, <<>>)>>, NoSummary)
                EXCEPT !.shape = "raised"]
        ELSE IF repo_info = <<>>
        THEN [Returned("repository_context", repo_name, NoValue, NoValue,
                       NoValue, collab, out.entries, "str",
                       <<Instruction("minimal", repo_name, <<>>)>>, NoSummary)
                EXCEPT !.shape = "list"]
        ELSE [Returned("repository_context", repo_name, NoValue, NoValue,
                       NoValue, collab, out.entries, "str",
                       <<Instruction("enriched", repo_name, repo_info)>>,
                       NoSummary)
                EXCEPT !.shape = "list"]

\* the default each optional parameter is declared with
DeclaredDefault(tool) ==
    CASE tool \in {"list_issues", "analyze_issues"} -> Str(<<"a", "l", "l">>)
      [] tool \in {"list_commits", "analyze_commits"} -> PyNone
      [] tool = "list_directory_contents" -> Str(<<>>)

\* the tools with an optional parameter, and those with a required one
OptionalTools ==
    {"list_issues", "analyze_issues", "list_commits", "analyze_commits",
     "list_directory_contents"}
RequiredTools ==
    {"search_code", "analyze_issues", "analyze_commits", "get_file_content"}

\* ------------------------------------------------- the handlers on their own
HandlerRepos == {RepoAB}

\* a handler runs when no other call of the run is in progress
Invoke(record) ==
    /\ call = NoCall
    /\ call' = record
    /\ UNCHANGED <<files, pydantic_messages, selected_repository, repositories,
                   chat_history, conversation_started, queried, steps, last,
                   engine>>

\* the outcome has gone back to the engine
CallDone ==
    /\ call # NoCall
    /\ call' = NoCall
    /\ UNCHANGED <<files, pydantic_messages, selected_repository, repositories,
                   chat_history, conversation_started, queried, steps, last,
                   engine>>

CallSearchCode ==
    \E r \in HandlerRepos, q \in QueryValues, out \in IssueOutcomes :
        Invoke(search_code(r, q, out))

CallListIssues ==
    \E r \in HandlerRepos, st \in StateValues, out \in IssueOutcomes :
        Invoke(list_issues(r, st, out))

CallAnalyzeIssues ==
    \E r \in HandlerRepos, q \in QueryValues, st \in StateValues,
       out \in IssueOutcomes :
        Invoke(analyze_issues(r, q, st, out))

CallListCommits ==
    \E r \in HandlerRepos, path \in PathValues, out \in CommitOutcomes :
        Invoke(list_commits(r, path, out))

CallAnalyzeCommits ==
    \E r \in HandlerRepos, q \in QueryValues, path \in PathValues,
       out \in CommitOutcomes :
        Invoke(analyze_commits(r, q, path, out))

CallGetFileContent ==
    \E r \in HandlerRepos, path \in DirPathValues, out \in ContentOutcomes :
        Invoke(get_file_content(r, path, out))

CallListDirectoryContents ==
    \E r \in HandlerRepos, path \in DirPathValues, out \in ContentOutcomes :
        Invoke(list_directory_contents(r, path, out))

CallGetRepoDetails ==
    \E r \in ContextRepoNames, out \in RepoOutcomes :
        Invoke(get_repo_details(r, out))

CallRepositoryContext ==
    \E r \in ContextRepoNames, out \in RepoOutcomes :
        Invoke(repository_context(r, out))

NextTools ==
    \/ CallSearchCode
    \/ CallListIssues
    \/ CallAnalyzeIssues
    \/ CallListCommits
    \/ CallAnalyzeCommits
    \/ CallGetFileContent
    \/ CallListDirectoryContents
    \/ CallGetRepoDetails
    \/ CallRepositoryContext
    \/ CallDone

SpecTools == Init /\ [][NextTools]_vars

\* ------------------------------------------------------ claims on handlers
\* C12 (as claimed): a tool that receives a value that is not a string for
\* its optional parameter calls the collaborator with the declared default
\* instead, and does not raise on account of the type.
C12_OptionalDefaulted ==
    call.tool \in OptionalTools /\ ~IsStr(call.opt) =>
        /\ call.collab # <<>>
        /\ call.collab[1].opt = DeclaredDefault(call.tool)
        /\ call.raised => call.error \in CollaboratorErrors

\* C13 (as claimed): a tool that receives a value that is not a string for
\* its required parameter fails with a validation error and makes no
\* collaborator call.
C13_RequiredRejected ==
    call.tool \in RequiredTools /\ ~IsStr(call.query) =>
        /\ call.raised
        /\ call.error = "ValidationError"
        /\ call.collab = <<>>

\* items holds exactly the elements of fetched that satisfy Match, in the
\* order of fetched
C14_Selected(items, fetched, Match(_)) ==
    LET M == {i \in 1..Len(fetched) : Match(fetched[i])}
    IN  /\ Len(items) = Cardinality(M)
        /\ \A k \in 1..Len(items) :
              \E i \in M : /\ Cardinality({j \in M : j <= i}) = k
                           /\ items[k] = fetched[i]

\* s contains q, letter case ignored
C14_Has(q, s) == Contains(Lower(q), Lower(s))

\* C14: analyze_issues returns exactly the fetched issues whose title, or one
\* of whose labels, contains the query (case ignored), in the fetched order.
C14_IssuesFiltered ==
    call.tool = "analyze_issues" /\ ~call.raised =>
        LET Match(issue) ==
                \/ C14_Has(call.query.val, issue.title)
                \/ \E i \in 1..Len(issue.labels) :
                      C14_Has(call.query.val, issue.labels[i])
        IN  /\ call.kind = "IssueAnalysisResult"
            /\ C14_Selected(call.items, call.fetched, Match)

\* a label-only match in another letter case next to an issue that does not
\* match
C14_Witness ==
    /\ call.tool = "analyze_issues"
    /\ ~call.raised
    /\ call.query = Str(<<"B", "U", "G">>)
    /\ Len(call.fetched) = 2
    /\ call.fetched[1].labels = << <<"d", "o", "c">> >>
    /\ call.fetched[2].labels = << <<"d", "e", "b", "u", "g">> >>
    /\ call.items = <<call.fetched[2]>>

\* C15: analyze_commits asks the collaborator for the commits of the given
\* path (of the whole repository when the path is absent) and returns exactly
\* those whose message contains the query (case ignored), in that order.
C15_CommitsFiltered ==
    call.tool = "analyze_commits" /\ ~call.raised =>
        LET Match(commit) == C14_Has(call.query.val, commit.message)
        IN  /\ call.kind = "CommitAnalysisResult"
            /\ Len(call.collab) = 1
            /\ call.collab[1].opt =
                  (IF IsStr(call.opt) THEN call.opt ELSE PyNone)
            /\ IsStr(call.opt) =>
                  \A i \in 1..Len(call.fetched) :
                      call.fetched[i].path = call.opt.val
            /\ C14_Selected(call.items, call.fetched, Match)

C15_Witness ==
    /\ call.tool = "analyze_commits"
    /\ ~call.raised
    /\ call.query = Str(<<"b", "u", "g">>)
    /\ call.opt = PyNone
    /\ Len(call.fetched) = 2
    /\ call.fetched[1].message = <<"d", "o", "c">>
    /\ call.fetched[2].message = <<"B", "u", "g">>
    /\ call.items = <<call.fetched[2]>>

\* C16: list_directory_contents returns only a list the collaborator gave and
\* raises when it gave a single entry; get_file_content returns only a single
\* entry of type "file" and raises when it gave a list or another type.
C16_ShapeValidated ==
    /\ call.tool = "list_directory_contents" =>
          /\ ~call.raised => call.shape = "list" /\ call.items = call.fetched
          /\ call.shape = "dict" => call.raised /\ call.error = "ValueError"
    /\ call.tool = "get_file_content" =>
          /\ ~call.raised =>
                /\ call.shape = "dict"
                /\ call.fetched[1].type = "file"
                /\ call.items = call.fetched
          /\ call.shape = "list" => call.raised /\ call.error = "ValueError"
          /\ call.shape = "dict" /\ call.fetched[1].type # "file" =>
                call.raised /\ call.error = "ValueError"

\* the directory listing asked for a path that is a single file
C16_Witness ==
    /\ call.tool = "list_directory_contents"
    /\ call.shape = "dict"
    /\ call.fetched[1].type = "file"
    /\ call.raised
    /\ call.error = "ValueError"
    /\ call.items = <<>>

\* C17: when the metadata fetch raises, or the fetched list does not hold the
\* repository, repository_context returns the minimal instruction, which
\* names the repository and carries no metadata.
C17_ContextFallback ==
    /\ call.tool = "repository_context"
    /\ \/ call.shape = "raised"
       \/ /\ call.shape = "list"
          /\ \A i \in 1..Len(call.fetched) :
                call.fetched[i].full_name # call.repo_name
    => /\ ~call.raised
       /\ call.kind = "str"
       /\ Len(call.items) = 1
       /\ call.items[1].form = "minimal"
       /\ call.items[1].repo_name = call.repo_name
       /\ call.items[1].details = <<>>

C17_Witness ==
    /\ call.tool = "repository_context"
    /\ call.shape = "raised"
    /\ ~call.raised
    /\ call.items[1].form = "minimal"
    /\ call.items[1].repo_name = RepoAB

\* ======================================================== one run, stepwise
\* analyze_repository: takes no message history, runs the agent without one
\* and returns result.data only; every exception is logged and raised again.
analyze_repository(query, b) ==
    LET data == RepositoryAnalysisResult(b.answer, b.confidence)
    IN  IF b.failure # ""
        THEN [data |-> NoResult, raised |-> TRUE, all_messages |-> <<>>,
              error |-> b.failure]
        ELSE IF ~data.present
        THEN [data |-> NoResult, raised |-> TRUE, all_messages |-> <<>>,
              error |-> "validation_error"]
        ELSE [data |-> data, raised |-> FALSE, all_messages |-> <<>>,
              error |-> ""]

\* the tools the model calls in a run that is followed step by step
EngineTools == Tools \cup {"list_issues"}

\* the histories a caller holds when it starts a run
EnginePriors == {<<>>, new_messages("q", <<>>)}

\* what the collaborator behind a tool may do
ToolOutcomes(tool) ==
    CASE tool = "get_repo_details" -> RepoOutcomes
      [] tool = "get_file_content" -> ContentOutcomes
      [] tool = "list_issues" -> IssueOutcomes
      [] OTHER -> {}

\* the handler of a tool, with the arguments the model supplies
RunTool(tool, out) ==
    CASE tool = "get_repo_details" -> get_repo_details(RepoAB, out)
      [] tool = "get_file_content" ->
            get_file_content(RepoAB, Str(<<"s", "r", "c">>), out)
      [] tool = "list_issues" ->
            list_issues(RepoAB, Str(<<"o", "p", "e", "n">>), out)

\* what the entry point hands to its caller for a run that went as b says
EntryResult(entry, query, prior, b) ==
    IF entry = "sync" THEN analyze_repository_sync(query, prior, b)
    ELSE analyze_repository(query, b)

\* the run is over: the entry point returns or raises
Finished(b) ==
    LET res == EntryResult(engine.entry, engine.query, engine.prior, b)
    IN  [engine EXCEPT !.pc = IF res.raised THEN "error" ELSE "final",
                       !.pending = "",
                       !.error = res.error,
                       !.data = res.data,
                       !.history_returned =
                           (engine.entry = "sync" /\ ~res.raised),
                       !.all_messages = res.all_messages]

SessionUnchanged ==
    UNCHANGED <<files, pydantic_messages, selected_repository, repositories,
                chat_history, conversation_started, queried, steps, last>>

\* a caller that holds the history given starts a run through one of the
\* two entry points; only analyze_repository_sync can be handed the history
EngineStart(entry, query, given) ==
    /\ engine.pc = "idle"
    /\ call = NoCall
    /\ engine' = [EngineIdle EXCEPT
                     !.pc = "model", !.entry = entry, !.query = query,
                     !.given = given,
                     !.prior = IF entry = "sync" THEN given ELSE <<>>]
    /\ UNCHANGED call
    /\ SessionUnchanged

\* the model asks for a tool
ModelCallsTool(tool) ==
    /\ engine.pc = "model"
    /\ Len(engine.tools) < MaxToolCalls
    /\ engine' = [engine EXCEPT !.pc = "tool", !.pending = tool]
    /\ UNCHANGED call
    /\ SessionUnchanged

\* the model gives its final answer, which is validated
ModelAnswers(answer, confidence) ==
    /\ engine.pc = "model"
    /\ engine' = Finished([answer |-> answer, confidence |-> confidence,
                           tools |-> engine.tools, failure |-> ""])
    /\ UNCHANGED call
    /\ SessionUnchanged

\* the request to the model raises
ModelRaises ==
    /\ engine.pc = "model"
    /\ engine' = Finished([answer |-> "answer", confidence |-> 0,
                           tools |-> engine.tools, failure |-> "model_error"])
    /\ UNCHANGED call
    /\ SessionUnchanged

\* the handler of the pending tool runs; what it raises ends the run
ToolRuns ==
    /\ engine.pc = "tool"
    /\ \E out \in ToolOutcomes(engine.pending) :
          /\ call' = RunTool(engine.pending, out)
          /\ engine' =
                IF call'.raised
                THEN [Finished([answer |-> "answer", confidence |-> 0,
                                tools |-> engine.tools, failure |-> call'.error])
                        EXCEPT !.pending = engine.pending,
                               !.collab_error = out.error]
                ELSE [engine EXCEPT !.pc = "tool_returned"]
    /\ SessionUnchanged

\* the return value of the handler goes back to the model
ToolReturns ==
    /\ engine.pc = "tool_returned"
    /\ engine' = [engine EXCEPT !.pc = "model", !.pending = "",
                                !.tools = Append(engine.tools, engine.pending)]
    /\ call' = NoCall
    /\ SessionUnchanged

\* the caller has the outcome
EngineDone ==
    /\ engine.pc \in {"final", "error"}
    /\ engine' = EngineIdle
    /\ call' = NoCall
    /\ SessionUnchanged

NextEngine ==
    \/ \E entry \in {"sync", "async"}, query \in Queries,
          given \in EnginePriors : EngineStart(entry, query, given)
    \/ \E tool \in EngineTools : ModelCallsTool(tool)
    \/ \E answer \in Answers, confidence \in Confidences :
          ModelAnswers(answer, confidence)
    \/ ModelRaises
    \/ ToolRuns
    \/ ToolReturns
    \/ EngineDone

SpecEngine == Init /\ [][NextEngine]_vars

\* C18: when the collaborator call of a handler raises, the handler raises
\* that error after one collaborator call and without a result, and the entry
\* point raises it to its caller and returns no result.
C18_ErrorPropagates ==
    engine.collab_error # "" =>
        /\ call.raised
        /\ call.error = engine.collab_error
        /\ Len(call.collab) = 1
        /\ call.items = <<>>
        /\ call.kind = ""
        /\ engine.pc = "error"
        /\ engine.error = engine.collab_error
        /\ ~engine.data.present
        /\ engine.all_messages = <<>>

\* list_issues on a repository that is not found, after another tool call
C18_Witness ==
    /\ engine.pc = "error"
    /\ engine.pending = "list_issues"
    /\ engine.tools # <<>>
    /\ engine.collab_error = "NotFound"
    /\ call.tool = "list_issues"
    /\ call.error = "NotFound"
    /\ engine.error = "NotFound"

\* C19 (as claimed): whichever entry point ran, the caller that held a
\* history gets the Result and the updated history that the blocking entry
\* point yields for that history.
C19_SameContract ==
    engine.pc = "final" =>
        LET b == [answer |-> engine.data.answer,
                  confidence |-> engine.data.confidence,
                  tools |-> engine.tools, failure |-> ""]
            sync == analyze_repository_sync(engine.query, engine.given, b)
        IN  /\ engine.prior = engine.given
            /\ engine.data = sync.data
            /\ engine.history_returned
            /\ engine.all_messages = sync.all_messages

\* C21 (as claimed): a result that the entry point returns to its caller has
\* an answer that is not the empty string.
C21_AnswerNonEmpty ==
    engine.pc = "final" /\ engine.data.present => engine.data.answer # ""

\* C22 (as claimed): a query or a Clear on the selected repository leaves
\* the in-memory history and the history file of every other repository as
\* they were.
C22_KeysIndependent ==
    [][(last'.op \in {"query", "clear"} /\ steps' = steps + 1) =>
          \A other \in Repos \ {last'.repo} :
              /\ (other \in DOMAIN pydantic_messages') =
                    (other \in DOMAIN pydantic_messages)
              /\ DictGet(pydantic_messages', other) =
                    DictGet(pydantic_messages, other)
              /\ files'[get_history_filename(other)] =
                    files[get_history_filename(other)]]_vars

\* C23: the summary of search_code, analyze_issues and analyze_commits is
\* the "No ..." form exactly when the returned list is empty, otherwise the
\* "Found N ..." form with N the length of the returned list, and it quotes
\* the query that was passed in.
C23_SummaryMatchesList ==
    call.tool \in {"search_code", "analyze_issues", "analyze_commits"}
    /\ ~call.raised =>
        /\ (call.summary.form = "No") = (call.items = <<>>)
        /\ call.items # <<>> =>
              call.summary.form = "Found" /\ call.summary.n = Len(call.items)
        /\ call.summary.query = call.query

\* one of two fetched issues is returned
C23_Witness ==
    /\ call.tool = "analyze_issues"
    /\ ~call.raised
    /\ Len(call.fetched) = 2
    /\ Len(call.items) = 1
    /\ call.summary.form = "Found"
    /\ call.summary.n = 1
    /\ call.summary.query = call.query

\* C24 (as claimed): for every repository identifier, with exactly one "/"
\* or not, repository_context returns an instruction and does not raise.
C24_ContextNeverRaises ==
    call.tool = "repository_context" =>
        /\ ~call.raised
        /\ call.kind = "str"
        /\ Len(call.items) = 1

\* C25: get_repo_details returns only an entry of the fetched list whose
\* full_name is the repository identifier; when the list holds no such entry
\* it raises and returns nothing.
C25_DetailsOfNamedRepo ==
    call.tool = "get_repo_details" =>
        /\ ~call.raised =>
              /\ call.kind = "dict"
              /\ Len(call.items) = 1
              /\ call.items[1].full_name = call.repo_name
              /\ \E i \in 1..Len(call.fetched) : call.fetched[i] = call.items[1]
        /\ (\A i \in 1..Len(call.fetched) :
                call.fetched[i].full_name # call.repo_name) =>
              /\ call.raised
              /\ call.items = <<>>
              /\ call.error \in {"ValueError"} \cup CollaboratorErrors
        /\ call.fetched # <<>> /\ call.raised => call.error = "ValueError"

\* the owner's list holds other repositories only, one of them with a name
\* that starts like the one asked for
C25_Witness ==
    /\ call.tool = "get_repo_details"
    /\ call.repo_name = RepoAB
    /\ Len(call.fetched) = 2
    /\ call.fetched[1].full_name = RepoAB_C
    /\ call.fetched[2].full_name # RepoAB
    /\ call.raised
    /\ call.error = "ValueError"
    /\ call.items = <<>>

\* C26 (as claimed): the state that analyze_issues passes to the collaborator
\* is a string, whatever it received.
C26_StateIsString ==
    call.tool = "analyze_issues" =>
        \A i \in 1..Len(call.collab) : IsStr(call.collab[i].opt)

====
